---- MODULE Spec2Model ----
(***************************************************************************)
(* A model of the compositor engine's Output: construction and mode        *)
(* negotiation (set_mode), the damage-driven render() pipeline with the    *)
(* workspace-switch animation, and removal of an Output from Desktop on a  *)
(* destroy event.                                                          *)
(*                                                                         *)
(* Numbers.  ws_alpha and every opacity are IEEE binary32 values, held as  *)
(* integers in units of 2^-28 (so 1.0 is One = 2^28).  Horizontal          *)
(* positions are held in units of 2^-17 pixel (XUnit per pixel), the grid  *)
(* on which every float product width * alpha of at least 64 pixels lies.  *)
(* The float operations round to nearest, ties to even, as the hardware    *)
(* does.                                                                   *)
(***************************************************************************)
EXTENDS Integers, Sequences, FiniteSets, TLC

\* ------------------------------------------------------------- bounds
MaxOutputs == 3
NWorkspaces == 3
NViews == 4
MaxModes == 2
MaxGlobals == 3
MaxVersion == 3
MaxNotifyId == 2
MaxIdle == 2
MaxCreated == 2
MaxSurfaces == 3

\* ------------------------------------------------------------ numbers
NULL == 0
One == 2^28
XUnit == 2^17

\* The unit in the last place of a float whose magnitude is v units, in the
\* same units: a float has 24 significant bits.
RECURSIVE Ulp(_)
Ulp(v) == IF v < 2^24 THEN 1 ELSE 2 * Ulp(v \div 2)

\* n / d rounded to the nearest integer, ties to the even one.
RoundNearestEven(n, d) ==
  LET q == n \div d
      r == n % d
  IN IF 2 * r > d \/ (2 * r = d /\ q % 2 = 1) THEN q + 1 ELSE q

\* FloatAddTenth with the sum cut off towards zero instead of rounded to the
\* nearest float.
FloatAddTenthTowardZero(a) ==
  LET s5 == 5 * a + 2^27
      u == Ulp(s5 \div 5)
  IN (s5 \div (5 * u)) * u

\* (float) (a + 0.1): the sum is formed in double and rounded to float.  In
\* fifths of a unit 0.1 is 2^27 exactly (the double nearest 0.1 differs from
\* it by 6e-18, far less than the distance of any sum to a rounding tie).
FloatAddTenth(a) ==
  LET s5 == 5 * a + 2^27
      u == Ulp(s5 \div 5)
  IN RoundNearestEven(s5, 5 * u) * u

\* (float) (a - b) for two floats.
FloatSub(a, b) ==
  LET d == a - b
      m == IF d < 0 THEN 0 - d ELSE d
      r == RoundNearestEven(m, Ulp(m)) * Ulp(m)
  IN IF d < 0 THEN 0 - r ELSE r

\* (float) w * f for an int w (0 <= w < 2048) and a float f, in XUnits.  The
\* product is exact on the XUnit grid when it is 0 or at least 64 pixels.
FloatMulInt(w, f) ==
  LET m == IF f < 0 THEN 0 - f ELSE f
      fh == m \div 2^11
      fl == m % 2^11
      t == w * fh + (w * fl) \div 2^11
      rem == (w * fl) % 2^11
      u == Ulp(t)
      q == t \div u
      r == (t % u) * 2^11 + rem
      half == u * 2^10
      p == (IF r > half \/ (r = half /\ q % 2 = 1) THEN q + 1 ELSE q) * u
  IN IF f < 0 THEN 0 - p ELSE p

\* v.alpha * f for a view opacity v.alpha of 1.0 or 0.5 (a power of two, so
\* the float product is exact).
FloatMulAlpha(va, f) == IF va = One THEN f ELSE f \div (One \div va)

\* ------------------------------------------------------------ universe
OutputIds == 1..MaxOutputs
Workspaces == 1..NWorkspaces
ViewIds == 1..NViews

\* Workspace::index
WsIndex(w) == w - 1

\* View::x (pixels) and View::alpha, as get_render_data reads them.
ViewX(v) == 100 * (v - 1)
ViewAlpha(v) == IF v % 2 = 0 THEN One \div 2 ELSE One

\* View::y, View::width and View::height (pixels): neighbouring views
\* overlap.
ViewY(v) == 50 * ((v - 1) % 2)
ViewWidth(v) == 150
ViewHeight(v) == 100

Mode(w, h, r) == [width |-> w, height |-> h, refresh |-> r]
NoMode == Mode(0, 0, 0)

\* The modes a sink may advertise (refresh in mHz).
ModeSet ==
  { Mode(1000, 600, 60000), Mode(1000, 600, 144000),
    Mode(1000, 800, 60000), Mode(1920, 600, 60000) }

RECURSIVE SeqsUpTo(_, _)
SeqsUpTo(S, n) ==
  IF n = 0 THEN {<<>>}
  ELSE LET shorter == SeqsUpTo(S, n - 1)
       IN shorter \cup {Append(s, x) : s \in shorter, x \in S}

\* Config::Output as read by the constructor and set_mode.
NoConfig ==
  [present |-> FALSE, enable |-> FALSE, modes |-> <<>>,
   width |-> 0, height |-> 0, refresh_rate |-> 0, transform |-> 0]
DisabledConfig == [NoConfig EXCEPT !.present = TRUE]
EnabledConfigs ==
  { [present |-> TRUE, enable |-> TRUE, modes |-> cm,
     width |-> w, height |-> h, refresh_rate |-> r, transform |-> 0] :
      cm \in {<<>>, <<Mode(1920, 800, 75000)>>},
      w \in {0, 1000, 1920}, h \in {600, 800}, r \in {60, 75, 144} }

\* The transforms of an output: 0 is normal, 1 a quarter turn.
Transforms == {0, 1}

\* A configuration that enables the output with transform t and sets no mode.
TurnedConfig(t) ==
  [NoConfig EXCEPT !.present = TRUE, !.enable = TRUE, !.transform = t]

\* The events an Output subscribes to: destroy, mode and transform of its
\* sink, frame and destroy of its damage tracker.
EventKinds == {"destroy", "mode", "transform", "frame", "damage_destroy"}

\* A sink as the backend announces it: its advertised modes and whether it
\* is a DRM connector.
Sinks(lists) == { [modes |-> ms, drm |-> d] : ms \in lists, d \in BOOLEAN }

VARIABLES
  outputs,     \* Desktop::outputs, in discovery order
  out,         \* the Output object (and its wlr_output) of each output id
  subs,        \* per output id and event kind, the listeners registered
  removed_by,  \* per output id, the event that removed its last Output
  views,       \* Desktop::views, the registry, back to front
  ws_views,    \* Workspace: its ordered views
  fullscreen,  \* Workspace::fullscreen_view, NULL when none
  event,       \* the event the dispatch loop handled last
  client,      \* a Wayland client program (keyboard or desktop shell)
  server       \* the notification server (cloth-notifications)

vars == <<outputs, out, subs, removed_by, views, ws_views, fullscreen, event, client, server>>

\* The programs beside the engine.
others == <<client, server>>

NoBox == [width |-> 0, height |-> 0]

DeadOutput ==
  [enabled |-> FALSE, mode |-> NoMode, transform |-> 0, usable |-> NoBox,
   workspace |-> NULL, prev_workspace |-> NULL, ws_alpha |-> 0,
   views |-> <<>>, fullscreen_view |-> NULL, damage |-> FALSE]

Live(o) == \E i \in DOMAIN outputs : outputs[i] = o

\* ------------------------------------------------------------ workspace
\* Workspace::visible_views(): a fullscreen view hides every other view.
visible_views(w) ==
  IF fullscreen[w] # NULL THEN <<fullscreen[w]>> ELSE ws_views[w]

\* ---------------------------------------------------------------- render
\* AdvanceAlpha without the clamp of line 38.
AdvanceAlphaUnclamped(cur) ==
  LET a0 == IF cur.prev_workspace # cur.workspace /\ cur.prev_workspace # NULL
               /\ cur.ws_alpha >= One
            THEN 0 ELSE cur.ws_alpha
  IN IF a0 <= One THEN FloatAddTenth(a0) ELSE a0

\* Lines 34-38: a finished transition restarts when the workspace changed;
\* ws_alpha advances by 0.1 and is clamped to 1.
AdvanceAlpha(cur) ==
  LET a0 == IF cur.prev_workspace # cur.workspace /\ cur.prev_workspace # NULL
               /\ cur.ws_alpha >= One
            THEN 0 ELSE cur.ws_alpha
      a1 == IF a0 <= One THEN FloatAddTenth(a0) ELSE a0
  IN IF a1 > One THEN One ELSE a1

\* PrevEntries without the change of sign of line 46.
PrevEntriesNoFlip(cur, a) ==
  LET prev_ws_alpha == FloatSub(One, a)
      dx == FloatMulInt(cur.mode.width, a)
  IN IF prev_ws_alpha > 0 /\ cur.prev_workspace # NULL
     THEN LET vs == visible_views(cur.prev_workspace)
          IN [i \in DOMAIN vs |->
                [view |-> vs[i],
                 x |-> ViewX(vs[i]) * XUnit - dx,
                 alpha |-> FloatMulAlpha(ViewAlpha(vs[i]), prev_ws_alpha)]]
     ELSE <<>>

\* PrevEntries without the test prev_ws_alpha > 0 of line 44.
PrevEntriesAtAnyAlpha(cur, a) ==
  LET prev_ws_alpha == FloatSub(One, a)
      dx0 == FloatMulInt(cur.mode.width, a)
      dx == IF WsIndex(cur.workspace) < WsIndex(cur.prev_workspace)
            THEN 0 - dx0 ELSE dx0
  IN IF cur.prev_workspace # NULL
     THEN LET vs == visible_views(cur.prev_workspace)
          IN [i \in DOMAIN vs |->
                [view |-> vs[i],
                 x |-> ViewX(vs[i]) * XUnit - dx,
                 alpha |-> FloatMulAlpha(ViewAlpha(vs[i]), prev_ws_alpha)]]
     ELSE <<>>

\* Lines 43-53: the previous workspace's views, fading out and sliding away.
PrevEntries(cur, a) ==
  LET prev_ws_alpha == FloatSub(One, a)
      dx0 == FloatMulInt(cur.mode.width, a)
      dx == IF WsIndex(cur.workspace) < WsIndex(cur.prev_workspace)
            THEN 0 - dx0 ELSE dx0
  IN IF prev_ws_alpha > 0 /\ cur.prev_workspace # NULL
     THEN LET vs == visible_views(cur.prev_workspace)
          IN [i \in DOMAIN vs |->
                [view |-> vs[i],
                 x |-> ViewX(vs[i]) * XUnit - dx,
                 alpha |-> FloatMulAlpha(ViewAlpha(vs[i]), prev_ws_alpha)]]
     ELSE <<>>

\* ClearPrev without the test of line 55: every frame forgets the previous
\* workspace.
ClearPrevAlways(cur, a) == cur.workspace

\* ClearPrev without the assignment of line 56.
ClearPrevNever(cur, a) == cur.prev_workspace

\* Lines 55-57: a finished transition forgets the previous workspace.
ClearPrev(cur, a) == IF a >= One THEN cur.workspace ELSE cur.prev_workspace

\* CurEntries with the offset of the previous workspace's views,
\* width * ws_alpha, instead of its complement.
CurEntriesNoComplement(cur, a, prev) ==
  LET dx0 == FloatMulInt(cur.mode.width, a)
      dx == IF prev # NULL /\ WsIndex(cur.workspace) < WsIndex(prev)
            THEN 0 - dx0 ELSE dx0
  IN IF a > 0
     THEN LET vs == visible_views(cur.workspace)
          IN [i \in DOMAIN vs |->
                [view |-> vs[i],
                 x |-> ViewX(vs[i]) * XUnit + dx,
                 alpha |-> FloatMulAlpha(ViewAlpha(vs[i]), a)]]
     ELSE <<>>

\* Lines 59-68: the current workspace's views, fading and sliding in; prev
\* is prev_workspace as ClearPrev left it.
CurEntries(cur, a, prev) ==
  LET dx0 == FloatMulInt(cur.mode.width, FloatSub(One, a))
      dx == IF prev # NULL /\ WsIndex(cur.workspace) < WsIndex(prev)
            THEN 0 - dx0 ELSE dx0
  IN IF a > 0
     THEN LET vs == visible_views(cur.workspace)
          IN [i \in DOMAIN vs |->
                [view |-> vs[i],
                 x |-> ViewX(vs[i]) * XUnit + dx,
                 alpha |-> FloatMulAlpha(ViewAlpha(vs[i]), a)]]
     ELSE <<>>

\* Lines 40-41: the fullscreen view alone, no per-view batch.
FullscreenFrame(cur, a) ==
  [cur EXCEPT !.ws_alpha = a,
              !.views = <<>>,
              !.fullscreen_view = fullscreen[cur.workspace],
              !.damage = (a < One)]

\* TransitionFrame appending the current workspace's views before the
\* previous workspace's.
TransitionFrameCurrentFirst(cur, a) ==
  LET prev == ClearPrev(cur, a)
  IN [cur EXCEPT !.ws_alpha = a,
                 !.prev_workspace = prev,
                 !.views = CurEntries(cur, a, prev) \o PrevEntries(cur, a),
                 !.fullscreen_view = NULL,
                 !.damage = (a < One)]

\* TransitionFrame without the damage_whole() of line 73.
TransitionFrameNoDamage(cur, a) ==
  LET prev == ClearPrev(cur, a)
  IN [cur EXCEPT !.ws_alpha = a,
                 !.prev_workspace = prev,
                 !.views = PrevEntries(cur, a) \o CurEntries(cur, a, prev),
                 !.fullscreen_view = NULL,
                 !.damage = FALSE]

\* Lines 42-69: a frame of the workspace transition.
TransitionFrame(cur, a) ==
  LET prev == ClearPrev(cur, a)
  IN [cur EXCEPT !.ws_alpha = a,
                 !.prev_workspace = prev,
                 !.views = PrevEntries(cur, a) \o CurEntries(cur, a, prev),
                 !.fullscreen_view = NULL,
                 !.damage = (a < One)]

\* RenderFrame without the fullscreen branch of lines 40-41.
RenderFrameNoFullscreen(cur) == TransitionFrame(cur, AdvanceAlpha(cur))

\* Lines 32-73 of Output::render() on an enabled output.  context.reset()
\* empties the batch, context.do_render() draws it and with it the damage
\* accumulated so far, and damage_whole() follows while ws_alpha < 1.
RenderFrame(cur) ==
  IF cur.prev_workspace = cur.workspace /\ fullscreen[cur.workspace] # NULL
  THEN FullscreenFrame(cur, AdvanceAlpha(cur))
  ELSE TransitionFrame(cur, AdvanceAlpha(cur))

\* render without the early return of lines 28-30.
renderWhenDisabled(cur) == [output |-> RenderFrame(cur), do_render |-> TRUE]

\* Output::render(): the Output afterwards, and whether a frame was handed
\* to the renderer.
render(cur) ==
  IF ~cur.enabled
  THEN [output |-> cur, do_render |-> FALSE]
  ELSE [output |-> RenderFrame(cur), do_render |-> TRUE]

\* -------------------------------------------------------------- set_mode
\* (int) (oc.mode.refresh_rate * 1000)
MHz(oc) == oc.refresh_rate * 1000

\* ScanModes keeping the first width/height match instead of the last
\* (line 94 guarded by !best).
RECURSIVE ScanModesKeepFirst(_, _, _, _)
ScanModesKeepFirst(ms, i, oc, best) ==
  IF i > Len(ms) THEN best
  ELSE IF ms[i].width = oc.width /\ ms[i].height = oc.height
       THEN IF ms[i].refresh = MHz(oc) THEN i
            ELSE ScanModesKeepFirst(ms, i + 1, oc, IF best = 0 THEN i ELSE best)
       ELSE ScanModesKeepFirst(ms, i + 1, oc, best)

\* Lines 86-96: the scan of the advertised modes from position i on; the
\* position of the chosen mode, 0 for none.
RECURSIVE ScanModes(_, _, _, _)
ScanModes(ms, i, oc, best) ==
  IF i > Len(ms) THEN best
  ELSE IF ms[i].width = oc.width /\ ms[i].height = oc.height
       THEN IF ms[i].refresh = MHz(oc) THEN i
            ELSE ScanModes(ms, i + 1, oc, i)
       ELSE ScanModes(ms, i + 1, oc, best)

\* set_mode without the test of lines 80-84: an empty list is scanned like
\* any other, nothing matches and the error is logged.
set_modeWithoutCustom(ms, mode0, oc) ==
  LET best == ScanModes(ms, 1, oc, 0)
  IN IF best = 0
     THEN [mode |-> mode0, best |-> 0, custom |-> FALSE, error |-> TRUE]
     ELSE [mode |-> ms[best], best |-> best, custom |-> FALSE, error |-> FALSE]

\* set_mode falling back to a custom mode when no advertised mode matches,
\* instead of logging the error of line 98.
set_modeFallsBack(ms, mode0, oc) ==
  LET best == IF ms = <<>> THEN 0 ELSE ScanModes(ms, 1, oc, 0)
  IN IF best = 0
     THEN [mode |-> Mode(oc.width, oc.height, MHz(oc)), best |-> 0,
           custom |-> TRUE, error |-> FALSE]
     ELSE [mode |-> ms[best], best |-> best, custom |-> FALSE, error |-> FALSE]

\* set_mode(output, oc) on an output whose modes are ms and whose mode is
\* mode0: the mode afterwards, the position of the mode picked (0: none),
\* whether a custom mode was requested and whether the error was logged.
set_mode(ms, mode0, oc) ==
  IF ms = <<>>
  THEN [mode |-> Mode(oc.width, oc.height, MHz(oc)), best |-> 0,
        custom |-> TRUE, error |-> FALSE]
  ELSE LET best == ScanModes(ms, 1, oc, 0)
       IN IF best = 0
          THEN [mode |-> mode0, best |-> 0, custom |-> FALSE, error |-> TRUE]
          ELSE [mode |-> ms[best], best |-> best, custom |-> FALSE,
                error |-> FALSE]

\* ----------------------------------------------------------- constructor
\* Lines 114-117: the sink's preferred mode is the last one it advertises.
PreferredMode(ms) == IF ms = <<>> THEN NoMode ELSE ms[Len(ms)]

\* Lines 137-140: on a DRM connector the configured custom modes join the
\* sink's modes (wlr_drm_connector_add_mode puts each at the head).
RECURSIVE AddModes(_, _)
AddModes(ms, custom) ==
  IF custom = <<>> THEN ms
  ELSE AddModes(<<Head(custom)>> \o ms, Tail(custom))

\* Lines 134-157: the output's configuration applied (line 150 sets the
\* configured transform; a sink starts untransformed).
ApplyConfig(sink, oc) ==
  LET mode0 == PreferredMode(sink.modes)
      quiet == [mode |-> mode0, best |-> 0, custom |-> FALSE, error |-> FALSE]
  IN IF ~oc.present
     THEN [enabled |-> TRUE, modes |-> sink.modes, called |-> FALSE,
           sm |-> quiet, transform |-> 0]
     ELSE IF ~oc.enable
     THEN [enabled |-> FALSE, modes |-> sink.modes, called |-> FALSE,
           sm |-> quiet, transform |-> 0]
     ELSE LET ms == IF sink.drm THEN AddModes(sink.modes, oc.modes)
                    ELSE sink.modes
          IN IF oc.width # 0
             THEN [enabled |-> TRUE, modes |-> ms, called |-> TRUE,
                   sm |-> set_mode(ms, mode0, oc), transform |-> oc.transform]
             ELSE [enabled |-> TRUE, modes |-> ms, called |-> FALSE,
                   sm |-> quiet, transform |-> oc.transform]

\* util::erase_this(desktop.outputs, this)
erase_this(s, o) == SelectSeq(s, LAMBDA x : x # o)

\* ----------------------------------------------------------------- views
\* The surfaces a client may create, and the workspaces they are put on.
SurfaceIds == 1..MaxSurfaces
SurfaceWorkspaces == {1, 2}

InSeq(s, x) == \E i \in DOMAIN s : s[i] = x

\* The bounds of view v contain the layout point (lx, ly).
Contains(v, lx, ly) ==
  /\ ViewX(v) <= lx /\ lx < ViewX(v) + ViewWidth(v)
  /\ ViewY(v) <= ly /\ ly < ViewY(v) + ViewHeight(v)

\* View v is hidden: its workspace has another view fullscreen.
Hidden(v) ==
  \E w \in Workspaces :
    InSeq(ws_views[w], v) /\ fullscreen[w] # NULL /\ fullscreen[w] # v

NoHit == [view |-> NULL, sx |-> 0, sy |-> 0]

\* The hit-test going through the registry from the back (the first
\* inserted view) instead of from the top.
RECURSIVE view_atBackFirst(_, _, _, _)
view_atBackFirst(reg, i, lx, ly) ==
  LET j == Len(reg) + 1 - i
  IN IF i = 0 THEN NoHit
     ELSE IF ~Hidden(reg[j]) /\ Contains(reg[j], lx, ly)
     THEN [view |-> reg[j], sx |-> lx - ViewX(reg[j]), sy |-> ly - ViewY(reg[j])]
     ELSE view_atBackFirst(reg, i - 1, lx, ly)

\* Desktop::view_at: the hit-test goes through the registry from position i
\* down, topmost first, past the views a fullscreen view hides; the first
\* view whose bounds contain the point is the result, with the point in its
\* own coordinates.
RECURSIVE view_at(_, _, _, _)
view_at(reg, i, lx, ly) ==
  IF i = 0 THEN NoHit
  ELSE IF ~Hidden(reg[i]) /\ Contains(reg[i], lx, ly)
  THEN [view |-> reg[i], sx |-> lx - ViewX(reg[i]), sy |-> ly - ViewY(reg[i])]
  ELSE view_at(reg, i - 1, lx, ly)

\* Desktop::surface_at(lx, ly, sx, sy, view)
surface_at(lx, ly) == view_at(views, Len(views), lx, ly)

\* ------------------------------------------------------- listener bridge
NoSubs == [k \in EventKinds |-> 0]

\* Subscribe with the damage-frame listener added to its signal twice.
SubscribeFrameTwice == [k \in EventKinds |-> IF k = "frame" THEN 2 ELSE 1]

\* Lines 119-132: each of the five listeners is added to its signal once.
Subscribe == [k \in EventKinds |-> 1]

\* ---------------------------------------------------------------- layers
\* wlr_output_effective_resolution: a quarter turn swaps width and height.
EffectiveBox(cur) ==
  IF cur.transform % 2 = 1
  THEN [width |-> cur.mode.height, height |-> cur.mode.width]
  ELSE [width |-> cur.mode.width, height |-> cur.mode.height]

\* arrange_layers(output): the usable area is the output's box less the
\* exclusive zones of its layer surfaces; no layer surface is modelled.
arrange_layers(cur) == [cur EXCEPT !.usable = EffectiveBox(cur)]

\* --------------------------------------------------------- clients
\* The keyboard client (cloth::kbd::Client) and the desktop-shell program
\* (tablecloth::main) are Wayland clients: each lists the compositor's
\* globals through the registry, binds the ones it needs and then enters its
\* dispatch loop.

\* The interfaces a registry may announce; "other" stands for every
\* interface neither program looks for.
KbdKinds == {"virtual_keyboard_manager", "layer_shell", "seat"}
ShellKinds == {"desktop_shell", "output"}
Kinds == KbdKinds \cup ShellKinds
Interfaces == Kinds \cup {"other"}
Versions == 1..MaxVersion

\* An unbound proxy, and the proxy a bind of global name at version v gives.
NoProxy == [name |-> 0, version |-> 0]
Proxy(name, v) == [name |-> name, version |-> v]

\* No client program runs.
NoClient == [program |-> "none"]

\* A client program with the command line args ("ok", "bad" or "help")
\* whose protocol library supports version local of every interface.
NewClient(program, args, local) ==
  [program |-> program, args |-> args, local |-> local, phase |-> "start",
   bound |-> [k \in Kinds |-> NoProxy],
   binds |-> [k \in Kinds |-> 0],
   seen |-> [k \in Kinds |-> 0],
   first |-> [k \in Kinds |-> NoProxy],
   globals |-> 0, missing |-> FALSE, surfaces |-> 0,
   last |-> [kind |-> "none"]]

\* registry.bind(name, proxy, version): the proxy now stands for the global
\* name, requested at the version the caller passes.
Bind(c, k, name, v) ==
  [c EXCEPT !.bound[k] = Proxy(name, v), !.binds[k] = @ + 1]

\* Client::bind_interfaces' on_global binding the seat whether or not one is
\* bound.
KbdGlobalRebindsSeat(c, name, interface, version) ==
  IF interface \in KbdKinds THEN Bind(c, interface, name, version) ELSE c

\* on_global of Client::bind_interfaces (part_000 lines 10-20).
KbdGlobal(c, name, interface, version) ==
  IF interface = "virtual_keyboard_manager"
  THEN Bind(c, interface, name, version)
  ELSE IF interface = "layer_shell"
  THEN Bind(c, interface, name, version)
  ELSE IF interface = "seat"
  THEN IF c.bound["seat"] = NoProxy THEN Bind(c, interface, name, version) ELSE c
  ELSE c

\* on_global of tablecloth::main (shell.cpp lines 181-202).
ShellGlobal(c, name, interface, version) ==
  IF interface = "desktop_shell"
  THEN Bind(c, interface, name, version)
  ELSE IF interface = "output"
  THEN Bind(c, interface, name, version)
  ELSE c

\* The globals a program needs before it goes on.
Required(program) == IF program = "kbd" THEN KbdKinds ELSE ShellKinds

Unbound(c) == {k \in Required(c.program) : c.bound[k] = NoProxy}

\* Client::main lines 27-37: a command line in error, or one asking for
\* help, ends the program before anything is bound; tablecloth::main reads
\* no option of its own.
HandleStart ==
  /\ client.program # "none"
  /\ client.phase = "start"
  /\ client' = [client EXCEPT
                 !.phase = IF client.program = "kbd" /\ client.args # "ok"
                           THEN "exit" ELSE "roundtrip",
                 !.last = [kind |-> "start"]]

\* The registry announces the global name of an interface at a version; the
\* program's on_global handler runs.
HandleGlobal(interface, version) ==
  /\ client.program # "none"
  /\ client.phase \in {"roundtrip", "dispatch"}
  /\ client.globals < MaxGlobals
  /\ LET name == client.globals + 1
         c0 == [client EXCEPT
                  !.globals = name,
                  !.seen = IF interface \in Kinds
                           THEN [@ EXCEPT ![interface] = @ + 1] ELSE @,
                  !.first = IF interface \in Kinds /\ @[interface] = NoProxy
                            THEN [@ EXCEPT ![interface] = Proxy(name, version)]
                            ELSE @]
         c1 == IF client.program = "kbd"
               THEN KbdGlobal(c0, name, interface, version)
               ELSE ShellGlobal(c0, name, interface, version)
         bind == interface \in Kinds /\ c1.binds[interface] # c0.binds[interface]
     IN client' = [c1 EXCEPT
                     !.last = [kind |-> "global", interface |-> interface,
                               name |-> name, version |-> version,
                               bind |-> bind,
                               requested |-> IF bind
                                             THEN c1.bound[interface].version
                                             ELSE 0]]

\* Client::main lines 41-49 once bind_interfaces' roundtrips are done:
\* without seat, virtual-keyboard manager or layer shell it returns 1;
\* otherwise it builds the VirtualKeyboard and runs the GTK main loop.
KbdStartup(c) ==
  IF Unbound(c) # {}
  THEN [c EXCEPT !.missing = TRUE, !.phase = "failed"]
  ELSE [c EXCEPT !.surfaces = 1, !.phase = "dispatch"]

\* tablecloth::main lines 207-215 once the roundtrip is done: a missing
\* output or shell is logged, and the background, the grab surface and the
\* panel are created and the main loop entered all the same.
ShellStartup(c) ==
  [c EXCEPT !.missing = (Unbound(c) # {}), !.surfaces = 3, !.phase = "dispatch"]

\* The registry roundtrip returns.
HandleRoundtripDone ==
  /\ client.program # "none"
  /\ client.phase = "roundtrip"
  /\ client' = [(IF client.program = "kbd" THEN KbdStartup(client)
                 ELSE ShellStartup(client))
                EXCEPT !.last = [kind |-> "roundtrip_done"]]

\* ------------------------------------------------- notification server
\* NotificationServer answers the message bus (Notify, CloseNotification);
\* a Notification owns a sleeper thread that waits for its timeout; the GTK
\* main loop runs the calls deferred with Glib::signal_idle().connect_once.

\* Where a Notify call names its image, and what the image is like: fine,
\* a file that is missing, a file that is no image, a variant of the wrong
\* type.
ImageSources ==
  {"none", "image-data", "image_data", "image-path", "app_icon", "icon_data"}
ImageStates == {"ok", "missing", "corrupt", "badtype"}

\* get_image (lines 10-42): "pixbuf" or "none" when it returns an image or
\* none; "std" when a std::exception leaves it (the variant conversion of
\* line 29, or hints.at("image-data") when only image_data or icon_data is
\* there); "glib" when Gdk::Pixbuf::create_from_file throws a Glib::Error
\* that is no Glib::FileError (line 38 catches only that one).
get_image(src, st) ==
  IF src \in {"image-path", "app_icon"}
  THEN IF st = "missing" THEN "none"
       ELSE IF st = "corrupt" THEN "glib"
       ELSE "pixbuf"
  ELSE IF src = "image-data"
  THEN IF st = "badtype" THEN "std" ELSE "pixbuf"
  ELSE IF src \in {"image_data", "icon_data"}
  THEN "std"
  ELSE "none"

\* The urgency hint: absent, or a byte (Low 0, Normal 1, Critical 2).
Urgencies ==
  {[present |-> FALSE, value |-> 0]} \cup {[present |-> TRUE, value |-> v] : v \in 0..3}
TimeoutsIn == {-1, 0, 3}

\* Lines 74-93: the timeout of a notification.
EffectiveTimeout(urgency_hint, expire_timeout_in) ==
  LET urgency == IF urgency_hint.present THEN urgency_hint.value ELSE 1
  IN IF expire_timeout_in < 0
     THEN IF urgency = 0 THEN 5
          ELSE IF urgency = 1 THEN 10
          ELSE IF urgency = 2 THEN 0
          ELSE expire_timeout_in
     ELSE expire_timeout_in

\* No notification server runs.
NoServer == [running |-> FALSE]

\* The server as constructed: _id counts the ids it has given out; signals
\* holds what the handler that ran last emitted on the bus.
NewServer ==
  [running |-> TRUE, id |-> 0, notifications |-> <<>>, idle |-> <<>>,
   sleepers |-> {}, created |-> 0, signals |-> <<>>,
   last |-> [kind |-> "none"]]

\* The notifications of the list, by the object they are.
Listed(srv) == {srv.notifications[i].uid : i \in DOMAIN srv.notifications}

\* ~Notification (lines 243-246) of each notification of ns, in order: the
\* server emits NotificationClosed(id, 0).
NotificationClosed(ns) ==
  [i \in DOMAIN ns |-> [signal |-> "NotificationClosed", id |-> ns[i].id,
                        reason |-> 0]]

\* RunNotify without the erase of lines 100-103: the new Notification joins
\* the list beside the one of its id.
RunNotifyAppends(srv, call) ==
  LET uid == srv.created + 1
  IN [srv EXCEPT
        !.notifications = Append(@, [uid |-> uid, id |-> call.id,
                                     expire |-> call.expire]),
        !.created = uid,
        !.sleepers = @ \cup {uid}]

\* The deferred call of lines 99-106: every notification of this id leaves
\* the list and is destroyed, and a new Notification joins the end of the
\* list; its constructor starts the sleeper thread (lines 233-240).
RunNotify(srv, call) ==
  LET uid == srv.created + 1
      kept == SelectSeq(srv.notifications, LAMBDA n : n.id # call.id)
      gone == Listed(srv) \ {kept[i].uid : i \in DOMAIN kept}
  IN [srv EXCEPT
        !.notifications = Append(kept, [uid |-> uid, id |-> call.id,
                                        expire |-> call.expire]),
        !.created = uid,
        !.sleepers = (@ \ gone) \cup {uid},
        !.signals = @ \o NotificationClosed(
                      SelectSeq(srv.notifications, LAMBDA n : n.id = call.id))]

\* The deferred call of lines 118-121: the first notification of this id,
\* if there is one, leaves the list and is destroyed.
RunClose(srv, call) ==
  LET found == {i \in DOMAIN srv.notifications : srv.notifications[i].id = call.id}
  IN IF found = {} THEN srv
     ELSE LET i == CHOOSE j \in found : \A k \in found : j <= k
              uid == srv.notifications[i].uid
          IN [srv EXCEPT
                !.notifications = SelectSeq(@, LAMBDA n : n.uid # uid),
                !.sleepers = @ \ {uid},
                !.signals = @ \o NotificationClosed(<<srv.notifications[i]>>)]

\* EraseNotification with a destructor that emits nothing.
EraseNotificationSilent(srv, uid) ==
  [srv EXCEPT !.notifications = SelectSeq(@, LAMBDA n : n.uid # uid),
              !.sleepers = @ \ {uid}]

\* util::erase_this(server.notifications, this) for the Notification uid:
\* it leaves the list, if it is there, and is destroyed.
EraseNotification(srv, uid) ==
  [srv EXCEPT !.notifications = SelectSeq(@, LAMBDA n : n.uid # uid),
              !.sleepers = @ \ {uid},
              !.signals = @ \o NotificationClosed(
                            SelectSeq(srv.notifications, LAMBDA n : n.uid = uid))]

\* Notify (lines 59-114) inserting the notification at once instead of
\* deferring the insertion.
HandleNotifyDirect(id_in, expire_in, urgency, src, st) ==
  /\ server.running
  /\ server.created + Len(server.idle) < MaxCreated
  /\ id_in = 0 => server.id < MaxNotifyId
  /\ LET notification_id == IF id_in = 0 THEN server.id + 1 ELSE id_in
         s1 == [server EXCEPT !.id = IF id_in = 0 THEN @ + 1 ELSE @,
                              !.signals = <<>>]
         image == get_image(src, st)
         call == [op |-> "notify", id |-> notification_id,
                  expire |-> EffectiveTimeout(urgency, expire_in)]
     IN server' =
          [(IF image \in {"std", "glib"} THEN s1 ELSE RunNotify(s1, call))
           EXCEPT !.last =
             [kind |-> "Notify", actor |-> "bus", id_in |-> id_in,
              expire_in |-> expire_in, urgency |-> urgency,
              image |-> image,
              scheduled |-> FALSE,
              propagated |-> (image = "glib"),
              error |-> (image = "std"),
              returned |-> IF image = "std" THEN id_in ELSE notification_id]]

\* Notify (lines 59-114), a handler of the message bus.  A std::exception
\* is caught at line 109; a Glib::Error is none under gtkmm-3.0 (glibmm 2.4,
\* meson.build) and leaves the handler.  Line 63 has counted the id by then.
HandleNotify(id_in, expire_in, urgency, src, st) ==
  /\ server.running
  /\ server.created + Len(server.idle) < MaxCreated
  /\ Len(server.idle) < MaxIdle
  /\ id_in = 0 => server.id < MaxNotifyId
  /\ LET notification_id == IF id_in = 0 THEN server.id + 1 ELSE id_in
         s1 == [server EXCEPT !.id = IF id_in = 0 THEN @ + 1 ELSE @,
                              !.signals = <<>>]
         image == get_image(src, st)
         call == [op |-> "notify", id |-> notification_id,
                  expire |-> EffectiveTimeout(urgency, expire_in)]
     IN server' =
          [(IF image \in {"std", "glib"} THEN s1
            ELSE [s1 EXCEPT !.idle = Append(@, call)])
           EXCEPT !.last =
             [kind |-> "Notify", actor |-> "bus", id_in |-> id_in,
              expire_in |-> expire_in, urgency |-> urgency,
              image |-> image,
              scheduled |-> (image \notin {"std", "glib"}),
              propagated |-> (image = "glib"),
              error |-> (image = "std"),
              returned |-> IF image = "std" THEN id_in ELSE notification_id]]

\* CloseNotification (lines 116-122), a handler of the message bus.
HandleCloseNotification(id) ==
  /\ server.running
  /\ Len(server.idle) < MaxIdle
  /\ server' = [server EXCEPT
                  !.idle = Append(@, [op |-> "close", id |-> id]),
                  !.signals = <<>>,
                  !.last = [kind |-> "CloseNotification", actor |-> "bus",
                            id |-> id, scheduled |-> TRUE]]

\* The sleeper thread of Notification uid wakes (lines 233-240): a positive
\* timeout defers the removal of the notification to the main loop.
HandleSleeperWake(uid) ==
  /\ server.running
  /\ uid \in server.sleepers
  /\ Len(server.idle) < MaxIdle
  /\ LET n == CHOOSE x \in {server.notifications[i] : i \in DOMAIN server.notifications} :
                x.uid = uid
     IN server' = [server EXCEPT
                     !.idle = IF n.expire > 0
                              THEN Append(@, [op |-> "expire", uid |-> uid])
                              ELSE @,
                     !.sleepers = @ \ {uid},
                     !.signals = <<>>,
                     !.last = [kind |-> "sleeper", actor |-> "sleeper",
                               uid |-> uid, scheduled |-> (n.expire > 0)]]

\* The main loop runs the oldest deferred call (of a Notify it records how
\* many notifications of the id were listed).  An expiry whose Notification
\* is gone runs erase_this on a dangling pointer: it finds nothing, or the
\* Notification that now lives at that address.
HandleIdle ==
  /\ server.running
  /\ server.idle # <<>>
  /\ LET call == Head(server.idle)
         s1 == [server EXCEPT !.idle = Tail(@), !.signals = <<>>]
         last == [kind |-> "idle", actor |-> "main", op |-> call.op,
                  replaced |-> IF call.op = "notify"
                               THEN Len(SelectSeq(s1.notifications,
                                                  LAMBDA n : n.id = call.id))
                               ELSE 0]
     IN IF call.op = "notify"
        THEN server' = [RunNotify(s1, call) EXCEPT !.last = last]
        ELSE IF call.op = "close"
        THEN server' = [RunClose(s1, call) EXCEPT !.last = last]
        ELSE IF call.uid \in Listed(s1)
        THEN server' = [EraseNotification(s1, call.uid) EXCEPT !.last = last]
        ELSE \/ server' = [s1 EXCEPT !.last = last]
             \/ \E victim \in Listed(s1) :
                  server' = [EraseNotification(s1, victim) EXCEPT !.last = last]

\* A press on the notification's window (lines 196-199), handled by the
\* main loop: the notification leaves the list.
HandleClick(uid) ==
  /\ server.running
  /\ uid \in Listed(server)
  /\ server' = [EraseNotification([server EXCEPT !.signals = <<>>], uid) EXCEPT
                  !.last = [kind |-> "click", actor |-> "main", uid |-> uid]]

\* ------------------------------------------------------------------ Init
ViewsOf(w) ==
  LET S == {v \in ViewIds : ((v - 1) % NWorkspaces) + 1 = w}
      RECURSIVE Asc(_)
      Asc(T) == IF T = {} THEN <<>>
                ELSE LET m == CHOOSE x \in T : \A y \in T : x <= y
                     IN <<m>> \o Asc(T \ {m})
  IN Asc(S)

\* Desktop before any output is announced.
InitOutputs ==
  /\ outputs = <<>>
  /\ out = [o \in OutputIds |-> DeadOutput]
  /\ subs = [o \in OutputIds |-> NoSubs]
  /\ removed_by = [o \in OutputIds |-> "none"]

\* Every view exists, created in the order of the view ids and spread over
\* the workspaces; any workspace may have one of its views fullscreen.
InitEngine ==
  /\ InitOutputs
  /\ views = [i \in 1..NViews |-> i]
  /\ ws_views = [w \in Workspaces |-> ViewsOf(w)]
  /\ fullscreen \in [Workspaces -> ViewIds \cup {NULL}]
  /\ \A w \in Workspaces :
       fullscreen[w] # NULL => \E i \in DOMAIN ws_views[w] : ws_views[w][i] = fullscreen[w]
  /\ event = [kind |-> "none"]

\* The engine alone: no client program has been started.
Init == InitEngine /\ client = NoClient /\ server = NoServer

\* --------------------------------------------------------------- actions
\* The backend may emit any event of any sink or damage tracker at any time;
\* a signal runs each listener registered with it, so the handler of an
\* event of kind k for output id o runs subs[o][k] times.  Each event records
\* in calls how many times its handler ran.

\* Desktop's new-output handler: Output::Output (lines 105-161) on the
\* workspace ws, then the Output joins Desktop::outputs.  The backend
\* announces the sink enabled and only line 153 disables it; the header's
\* initial values are prev_workspace = nullptr and ws_alpha = alpha0, either
\* end of [0, 1]; lines 159-160 arrange the layers and leave the whole
\* output damaged.  The wlr_output setters of lines 116, 101 and 149-150 are
\* taken to change the sink without running a listener.
HandleNewOutput(o, sink, oc, ws, alpha0) ==
  /\ ~Live(o)
  /\ LET r == ApplyConfig(sink, oc)
     IN /\ out' = [out EXCEPT ![o] =
                     arrange_layers(
                       [enabled |-> r.enabled, mode |-> r.sm.mode,
                        transform |-> r.transform, usable |-> NoBox,
                        workspace |-> ws, prev_workspace |-> NULL,
                        ws_alpha |-> alpha0, views |-> <<>>,
                        fullscreen_view |-> NULL, damage |-> TRUE])]
        /\ event' = [kind |-> "new_output", out |-> o, modes |-> r.modes,
                     preferred |-> PreferredMode(sink.modes), oc |-> oc,
                     called |-> r.called, best |-> r.sm.best,
                     custom |-> r.sm.custom, error |-> r.sm.error,
                     arranged |-> 1]
  /\ outputs' = Append(outputs, o)
  /\ subs' = [subs EXCEPT ![o] = Subscribe]
  /\ removed_by' = [removed_by EXCEPT ![o] = "none"]
  /\ UNCHANGED <<views, ws_views, fullscreen>>

\* A switch accepted whatever the state of the transition.
NoTransitionAlways(cur) == TRUE

\* No transition is in flight: prev_workspace is unset (null, or equal to
\* workspace as render() leaves it) and ws_alpha has reached 1.
NoTransition(cur) ==
  /\ cur.prev_workspace \in {NULL, cur.workspace}
  /\ cur.ws_alpha >= One

\* A workspace-switch request on an Output: rejected while a transition is
\* in flight.
SwitchWorkspace(o, target) ==
  /\ Live(o)
  /\ LET cur == out[o]
     IN IF NoTransition(cur)
        THEN out' = [out EXCEPT ![o] =
                       [cur EXCEPT !.prev_workspace = cur.workspace,
                                   !.workspace = target,
                                   !.ws_alpha = 0]]
        ELSE out' = out
  /\ event' = [kind |-> "switch", out |-> o, target |-> target,
               accepted |-> NoTransition(out[o])]
  /\ UNCHANGED <<outputs, subs, removed_by, views, ws_views, fullscreen>>

\* render() run n times in a row.
RECURSIVE RenderTimes(_, _)
RenderTimes(n, cur) ==
  IF n = 0 THEN cur ELSE RenderTimes(n - 1, render(cur).output)

\* on_damage_frame (lines 128-129): a damage-frame event runs render().  The
\* event keeps the value ws_alpha had when the handler was entered.
HandleDamageFrame(o) ==
  /\ LET n == subs[o]["frame"]
     IN /\ out' = [out EXCEPT ![o] = RenderTimes(n, out[o])]
        /\ event' = [kind |-> "frame", out |-> o, calls |-> n,
                     do_render |-> (n > 0 /\ render(out[o]).do_render),
                     before |-> out[o].ws_alpha]
  /\ UNCHANGED <<outputs, subs, removed_by, views, ws_views, fullscreen>>

\* on_destroy unlinking the Output from the collection without destroying
\* it: its listeners stay registered.
HandleDestroyKeepsListeners(o) ==
  /\ IF subs[o]["destroy"] > 0
     THEN /\ outputs' = erase_this(outputs, o)
          /\ out' = [out EXCEPT ![o] = DeadOutput]
          /\ removed_by' = [removed_by EXCEPT ![o] = "destroy"]
     ELSE UNCHANGED <<outputs, out, removed_by>>
  /\ event' = [kind |-> "destroy", out |-> o,
               calls |-> IF subs[o]["destroy"] > 0 THEN 1 ELSE 0,
               deregistered |-> NoSubs]
  /\ UNCHANGED <<subs, views, ws_views, fullscreen>>

\* on_destroy (lines 119-120): the sink's destroy event.  erase_this
\* destroys the Output the collection owns, and with it its five listeners:
\* each leaves its signal, so a second listener of the event would not run.
HandleDestroy(o) ==
  /\ IF subs[o]["destroy"] > 0
     THEN /\ outputs' = erase_this(outputs, o)
          /\ out' = [out EXCEPT ![o] = DeadOutput]
          /\ subs' = [subs EXCEPT ![o] = NoSubs]
          /\ removed_by' = [removed_by EXCEPT ![o] = "destroy"]
     ELSE UNCHANGED <<outputs, out, subs, removed_by>>
  /\ event' = [kind |-> "destroy", out |-> o,
               calls |-> IF subs[o]["destroy"] > 0 THEN 1 ELSE 0,
               deregistered |-> subs[o]]
  /\ UNCHANGED <<views, ws_views, fullscreen>>

\* on_damage_destroy erasing the last Output of the collection instead of
\* this one.
HandleDamageDestroyLast(o) ==
  /\ IF subs[o]["damage_destroy"] > 0
     THEN /\ outputs' = SubSeq(outputs, 1, Len(outputs) - 1)
          /\ out' = [out EXCEPT ![outputs[Len(outputs)]] = DeadOutput]
          /\ subs' = [subs EXCEPT ![outputs[Len(outputs)]] = NoSubs]
          /\ removed_by' = [removed_by EXCEPT ![outputs[Len(outputs)]] = "damage_destroy"]
     ELSE UNCHANGED <<outputs, out, subs, removed_by>>
  /\ event' = [kind |-> "damage_destroy", out |-> o,
               calls |-> IF subs[o]["damage_destroy"] > 0 THEN 1 ELSE 0,
               deregistered |-> subs[o]]
  /\ UNCHANGED <<views, ws_views, fullscreen>>

\* on_damage_destroy destroying the Output but leaving its sink listeners
\* (destroy, mode, transform) on their signals.
HandleDamageDestroyKeepsSink(o) ==
  LET kept == [k \in EventKinds |->
                 IF k \in {"destroy", "mode", "transform"} THEN subs[o][k] ELSE 0]
  IN /\ IF subs[o]["damage_destroy"] > 0
        THEN /\ outputs' = erase_this(outputs, o)
             /\ out' = [out EXCEPT ![o] = DeadOutput]
             /\ subs' = [subs EXCEPT ![o] = kept]
             /\ removed_by' = [removed_by EXCEPT ![o] = "damage_destroy"]
        ELSE UNCHANGED <<outputs, out, subs, removed_by>>
     /\ event' = [kind |-> "damage_destroy", out |-> o,
                  calls |-> IF subs[o]["damage_destroy"] > 0 THEN 1 ELSE 0,
                  deregistered |-> [k \in EventKinds |-> subs[o][k] - kept[k]]]
     /\ UNCHANGED <<views, ws_views, fullscreen>>

\* on_damage_destroy (lines 131-132): the damage tracker's destroy event.
HandleDamageDestroy(o) ==
  /\ IF subs[o]["damage_destroy"] > 0
     THEN /\ outputs' = erase_this(outputs, o)
          /\ out' = [out EXCEPT ![o] = DeadOutput]
          /\ subs' = [subs EXCEPT ![o] = NoSubs]
          /\ removed_by' = [removed_by EXCEPT ![o] = "damage_destroy"]
     ELSE UNCHANGED <<outputs, out, subs, removed_by>>
  /\ event' = [kind |-> "damage_destroy", out |-> o,
               calls |-> IF subs[o]["damage_destroy"] > 0 THEN 1 ELSE 0,
               deregistered |-> subs[o]]
  /\ UNCHANGED <<views, ws_views, fullscreen>>

\* on_mode (lines 122-123): the sink reports that its mode is now m.
HandleMode(o, m) ==
  /\ LET n == subs[o]["mode"]
     IN /\ out' = [out EXCEPT ![o] =
                     IF n > 0 THEN arrange_layers([out[o] EXCEPT !.mode = m])
                     ELSE out[o]]
        /\ event' = [kind |-> "mode", out |-> o, calls |-> n, arranged |-> n]
  /\ UNCHANGED <<outputs, subs, removed_by, views, ws_views, fullscreen>>

\* on_transform without the call of arrange_layers.
HandleTransformNoArrange(o, t) ==
  /\ LET n == subs[o]["transform"]
     IN /\ out' = [out EXCEPT ![o] =
                     IF n > 0 THEN [out[o] EXCEPT !.transform = t]
                     ELSE out[o]]
        /\ event' = [kind |-> "transform", out |-> o, calls |-> n,
                     arranged |-> 0]
  /\ UNCHANGED <<outputs, subs, removed_by, views, ws_views, fullscreen>>

\* on_transform (lines 125-126): the sink reports that its transform is
\* now t.
HandleTransform(o, t) ==
  /\ LET n == subs[o]["transform"]
     IN /\ out' = [out EXCEPT ![o] =
                     IF n > 0
                     THEN arrange_layers([out[o] EXCEPT !.transform = t])
                     ELSE out[o]]
        /\ event' = [kind |-> "transform", out |-> o, calls |-> n,
                     arranged |-> n]
  /\ UNCHANGED <<outputs, subs, removed_by, views, ws_views, fullscreen>>

\* A new-surface notification: Desktop constructs the View v and puts it at
\* the back (the top) of workspace w's view order and of the registry.
HandleNewSurface(v, w) ==
  /\ ~InSeq(views, v)
  /\ views' = Append(views, v)
  /\ ws_views' = [ws_views EXCEPT ![w] = Append(@, v)]
  /\ event' = [kind |-> "new_surface", view |-> v, workspace |-> w]
  /\ UNCHANGED <<outputs, out, subs, removed_by, fullscreen>>

\* The View's destruction taking it out of the registry only.
HandleViewDestroyKeepsInWorkspace(v) ==
  /\ views' = SelectSeq(views, LAMBDA x : x # v)
  /\ event' = [kind |-> "view_destroy", view |-> v, existed |-> InSeq(views, v)]
  /\ UNCHANGED <<outputs, out, subs, removed_by, ws_views, fullscreen>>

\* The backing surface of view v is destroyed: the View leaves its
\* workspace (and is no longer its fullscreen view) and the registry.  For a
\* view that is gone already nothing changes.
HandleViewDestroy(v) ==
  /\ views' = SelectSeq(views, LAMBDA x : x # v)
  /\ ws_views' = [w \in Workspaces |-> SelectSeq(ws_views[w], LAMBDA x : x # v)]
  /\ fullscreen' = [w \in Workspaces |->
                      IF fullscreen[w] = v THEN NULL ELSE fullscreen[w]]
  /\ event' = [kind |-> "view_destroy", view |-> v, existed |-> InSeq(views, v)]
  /\ UNCHANGED <<outputs, out, subs, removed_by>>

\* A view of workspace w becomes its fullscreen view, or the workspace's
\* fullscreen view (v = NULL) returns to normal.
HandleSetFullscreen(w, v) ==
  /\ v = NULL \/ InSeq(ws_views[w], v)
  /\ fullscreen' = [fullscreen EXCEPT ![w] = v]
  /\ event' = [kind |-> "set_fullscreen", workspace |-> w, view |-> v]
  /\ UNCHANGED <<outputs, out, subs, removed_by, views, ws_views>>

\* A hit-test at the layout point (lx, ly).
HandleSurfaceAt(lx, ly) ==
  /\ event' = [kind |-> "surface_at", lx |-> lx, ly |-> ly,
               hit |-> surface_at(lx, ly)]
  /\ UNCHANGED <<outputs, out, subs, removed_by, views, ws_views, fullscreen>>

\* The events of the outputs ids, with sinks, configurations, workspaces and
\* initial blend values drawn from the given sets.
NewOutput(ids, sinks, configs, wss, alphas) ==
  /\ \E o \in ids, sink \in sinks, oc \in configs, ws \in wss, alpha0 \in alphas :
       HandleNewOutput(o, sink, oc, ws, alpha0)
  /\ UNCHANGED others
Switch(ids) ==
  /\ \E o \in ids, target \in Workspaces : SwitchWorkspace(o, target)
  /\ UNCHANGED others
DamageFrame(ids) ==
  /\ \E o \in ids : HandleDamageFrame(o)
  /\ UNCHANGED others
Destroy(ids) ==
  /\ \E o \in ids : HandleDestroy(o)
  /\ UNCHANGED others
DamageDestroy(ids) ==
  /\ \E o \in ids : HandleDamageDestroy(o)
  /\ UNCHANGED others
ModeChange(ids, modes) ==
  /\ \E o \in ids, m \in modes : HandleMode(o, m)
  /\ UNCHANGED others
TransformChange(ids) ==
  /\ \E o \in ids, t \in Transforms : HandleTransform(o, t)
  /\ UNCHANGED others

\* The engine with one output: every handler, on sinks of either width.
SpecSinks ==
  Sinks({ <<Mode(1000, 600, 60000)>>,
          <<Mode(1000, 600, 60000), Mode(1920, 600, 60000)>> })
SpecConfigs == {NoConfig, DisabledConfig}

Next ==
  \/ NewOutput({1}, SpecSinks, SpecConfigs, Workspaces, {0, One})
  \/ Switch({1})
  \/ DamageFrame({1})
  \/ Destroy({1})
  \/ DamageDestroy({1})

Spec == Init /\ [][Next]_vars

\* The collection of outputs: up to MaxOutputs outputs come, render and go.
NextOutputs ==
  \/ NewOutput(OutputIds, Sinks({<<Mode(1000, 600, 60000)>>}), SpecConfigs,
               {1}, {One})
  \/ DamageFrame(OutputIds)
  \/ Destroy(OutputIds)
  \/ DamageDestroy(OutputIds)

SpecOutputs == Init /\ [][NextOutputs]_vars

\* Mode negotiation: one output at a time, built from every sink and
\* configuration within the bounds.
NextMode ==
  \/ NewOutput({1}, Sinks(SeqsUpTo(ModeSet, MaxModes)),
               {NoConfig, DisabledConfig} \cup EnabledConfigs, {1}, {One})
  \/ Destroy({1})
  \/ DamageDestroy({1})

\* No view is fullscreen: mode negotiation reads no workspace.
InitMode == Init /\ \A w \in Workspaces : fullscreen[w] = NULL

SpecMode == InitMode /\ [][NextMode]_vars

\* The layout of one output: its mode and transform change while it renders,
\* before it exists and after it is gone.
LayoutConfigs == {NoConfig, DisabledConfig} \cup {TurnedConfig(t) : t \in Transforms}

NextLayout ==
  \/ NewOutput({1}, SpecSinks, LayoutConfigs, {1}, {0, One})
  \/ ModeChange({1}, ModeSet)
  \/ TransformChange({1})
  \/ DamageFrame({1})
  \/ Destroy({1})
  \/ DamageDestroy({1})

SpecLayout == InitMode /\ [][NextLayout]_vars

\* Views come and go on an empty Desktop while its output shows one
\* workspace and then another; hit-tests are made at points in one view, in
\* two overlapping views and in none.
HitXs == {120, 220, 999}
HitYs == {20, 70, 120}

NewSurface ==
  /\ \E v \in SurfaceIds, w \in SurfaceWorkspaces : HandleNewSurface(v, w)
  /\ UNCHANGED others
ViewDestroy ==
  /\ \E v \in SurfaceIds : HandleViewDestroy(v)
  /\ UNCHANGED others
SetFullscreen ==
  /\ \E w \in SurfaceWorkspaces, v \in SurfaceIds \cup {NULL} : HandleSetFullscreen(w, v)
  /\ UNCHANGED others
SurfaceAt ==
  /\ \E lx \in HitXs, ly \in HitYs : HandleSurfaceAt(lx, ly)
  /\ UNCHANGED others

NextViews ==
  \/ NewSurface
  \/ ViewDestroy
  \/ SetFullscreen
  \/ SurfaceAt
  \/ NewOutput({1}, Sinks({<<Mode(1000, 600, 60000)>>}), {NoConfig}, {1}, {One})
  \/ Switch({1})

InitViews ==
  /\ InitOutputs
  /\ views = <<>>
  /\ ws_views = [w \in Workspaces |-> <<>>]
  /\ fullscreen = [w \in Workspaces |-> NULL]
  /\ event = [kind |-> "none"]
  /\ client = NoClient
  /\ server = NoServer

SpecViews == InitViews /\ [][NextViews]_vars

\* The animation of one output: it switches workspaces and renders, and the
\* backend delivers the damage-frame events fairly.
NextAnimation ==
  \/ NewOutput({1}, Sinks({<<Mode(1000, 600, 60000)>>}), SpecConfigs,
               {1}, {0, One})
  \/ Switch({1})
  \/ DamageFrame({1})
  \/ Destroy({1})
  \/ DamageDestroy({1})

\* A transition of output o is animating: render() would advance ws_alpha.
Animating(o) == Live(o) /\ out[o].enabled /\ out[o].ws_alpha < One

\* Weak fairness of the damage-frame handler of an animating output, written
\* out: a damage-frame step is possible (and changes ws_alpha) exactly while
\* the output is animating, so WF says that the output is not animating
\* again and again or damage-frame steps keep being taken.
FrameFairness(o) ==
  \/ []<>(~Animating(o))
  \/ []<><<event'.kind = "frame" /\ event'.out = o>>_vars

SpecAnimation == InitMode /\ [][NextAnimation]_vars /\ FrameFairness(1)

\* A client program from its start: the engine's state plays no part.
idle == <<outputs, out, subs, removed_by, views, ws_views, fullscreen, event>>

Start == HandleStart /\ UNCHANGED <<idle, server>>
Global ==
  /\ \E i \in Interfaces, v \in Versions : HandleGlobal(i, v)
  /\ UNCHANGED <<idle, server>>
RoundtripDone == HandleRoundtripDone /\ UNCHANGED <<idle, server>>

NextClient == Start \/ Global \/ RoundtripDone

InitClient ==
  /\ InitEngine
  /\ \A w \in Workspaces : fullscreen[w] = NULL
  /\ client \in {NewClient("kbd", a, l) : a \in {"ok", "bad", "help"}, l \in Versions}
                 \cup {NewClient("shell", "ok", l) : l \in Versions}
  /\ server = NoServer

SpecClient == InitClient /\ [][NextClient]_vars

\* The notification server from its start, with the engine and the clients
\* at rest.
rest == <<outputs, out, subs, removed_by, views, ws_views, fullscreen, event, client>>

Notify(timeouts, urgencies, images) ==
  /\ \E id_in \in 0..MaxNotifyId, expire_in \in timeouts, urgency \in urgencies,
        image \in images :
       HandleNotify(id_in, expire_in, urgency, image.src, image.st)
  /\ UNCHANGED rest
CloseNotification ==
  /\ \E id \in 1..MaxNotifyId : HandleCloseNotification(id)
  /\ UNCHANGED rest
SleeperWake ==
  /\ \E uid \in 1..MaxCreated : HandleSleeperWake(uid)
  /\ UNCHANGED rest
Idle == HandleIdle /\ UNCHANGED rest
Click ==
  /\ \E uid \in 1..MaxCreated : HandleClick(uid)
  /\ UNCHANGED rest

\* Notify calls with no timeout of their own or one of 3 s, of normal
\* (no hint) or critical urgency, and one image for each way get_image ends.
SpecImages ==
  { [src |-> "none", st |-> "ok"], [src |-> "image-path", st |-> "ok"],
    [src |-> "image_data", st |-> "ok"], [src |-> "image-path", st |-> "corrupt"] }
SpecUrgencies == {u \in Urgencies : ~u.present \/ u.value = 2}

NextServer ==
  \/ Notify({-1, 3}, SpecUrgencies, SpecImages)
  \/ CloseNotification
  \/ SleeperWake
  \/ Idle
  \/ Click

InitServer ==
  /\ InitEngine
  /\ \A w \in Workspaces : fullscreen[w] = NULL
  /\ client = NoClient
  /\ server = NewServer

SpecServer == InitServer /\ [][NextServer]_vars

\* Notify calls of every urgency hint and timeout, without an image.
NextTimeout ==
  \/ Notify(TimeoutsIn, Urgencies, {[src |-> "none", st |-> "ok"]})
  \/ CloseNotification
  \/ SleeperWake
  \/ Idle
  \/ Click

SpecTimeout == InitServer /\ [][NextTimeout]_vars

\* ================================================================ claims
Rendered(o) ==
  /\ Live(o)
  /\ event.kind = "frame"
  /\ event.out = o
  /\ event.do_render

InBatch(o, e) == \E i \in DOMAIN out[o].views : out[o].views[i] = e

\* The float nearest n / d, for 0 < n < 8 and n < 8 * d.
NearestFloat(n, d) ==
  LET u == Ulp((n * One) \div d)
  IN RoundNearestEven(n * One, d * u) * u

\* C1: in every reachable state of every Output, whatever render() calls and
\* workspace-switch requests came before, ws_alpha lies in [0, 1].
C1_AlphaInUnitInterval ==
  \A o \in OutputIds :
    Live(o) => (0 <= out[o].ws_alpha /\ out[o].ws_alpha <= One)

\* Nine render() calls after a switch: ws_alpha has accumulated to just above
\* 0.9, one step before the clamp.
C1_Witness ==
  \E o \in OutputIds :
    /\ Rendered(o)
    /\ out[o].ws_alpha > FloatSub(One, NearestFloat(1, 10))
    /\ out[o].ws_alpha < One
    /\ out[o].prev_workspace # NULL
    /\ out[o].prev_workspace # out[o].workspace

\* C2 as stated: prev_workspace is non-null only while ws_alpha < 1 (it is
\* null once render() has brought ws_alpha to 1).
C2_PrevNullAtOne ==
  \A o \in OutputIds :
    (Live(o) /\ out[o].prev_workspace # NULL) => out[o].ws_alpha < One

\* C2 amended: when render() returns with ws_alpha = 1, prev_workspace is
\* not null but equal to workspace, and later render() calls keep it so until
\* a switch; after a render() prev_workspace differs from workspace only
\* while ws_alpha < 1.
C2_PrevIsWorkspaceAtOne ==
  /\ [](\A o \in OutputIds :
          Rendered(o) =>
            /\ out[o].ws_alpha >= One =>
                 ( /\ out[o].prev_workspace = out[o].workspace
                   /\ out[o].prev_workspace # NULL )
            /\ out[o].prev_workspace # out[o].workspace => out[o].ws_alpha < One)
  /\ [][\A o \in OutputIds :
          ( /\ Rendered(o)
            /\ out[o].ws_alpha >= One
            /\ event'.kind = "frame" /\ event'.out = o )
          =>
          ( /\ out'[o].prev_workspace = out[o].workspace
            /\ out'[o].workspace = out[o].workspace
            /\ out'[o].ws_alpha = One )]_vars

\* A render() has finished a transition: it brought ws_alpha from below 1
\* to 1 and left prev_workspace equal to the (non-null) current workspace.
C2_Witness ==
  \E o \in OutputIds :
    /\ Rendered(o)
    /\ event.before < One /\ event.before > 0
    /\ out[o].ws_alpha = One
    /\ out[o].prev_workspace = out[o].workspace
    /\ out[o].prev_workspace # NULL
    /\ out[o].fullscreen_view = NULL

\* C3: a transition frame rendered at blend value a, 0 < a < 1, towards a
\* workspace of smaller index on an output of width W holds every visible
\* view of the previous workspace with x shifted by +W*a and opacity times
\* (1-a), and every visible view of the new workspace with x shifted by
\* -W*(1-a) and opacity times a; for W = 1000 and a = 0.3 that is +300 with
\* factor 0.7 and -700 with factor 0.3.
C3_SlideTowardsSmallerIndex ==
  \A o \in OutputIds :
    LET cur == out[o]
        a == cur.ws_alpha
        W == cur.mode.width
    IN ( /\ Rendered(o)
         /\ 0 < a /\ a < One
         /\ cur.prev_workspace # NULL
         /\ WsIndex(cur.workspace) < WsIndex(cur.prev_workspace) )
       =>
       LET pv == visible_views(cur.prev_workspace)
           cv == visible_views(cur.workspace)
       IN /\ \A i \in DOMAIN pv :
               InBatch(o, [view |-> pv[i],
                           x |-> ViewX(pv[i]) * XUnit + FloatMulInt(W, a),
                           alpha |-> FloatMulAlpha(ViewAlpha(pv[i]), FloatSub(One, a))])
          /\ \A i \in DOMAIN cv :
               InBatch(o, [view |-> cv[i],
                           x |-> ViewX(cv[i]) * XUnit - FloatMulInt(W, FloatSub(One, a)),
                           alpha |-> FloatMulAlpha(ViewAlpha(cv[i]), a)])
          /\ Len(cur.views) = Len(pv) + Len(cv)
          /\ (W = 1000 /\ a = NearestFloat(3, 10)) =>
               /\ \A i \in DOMAIN pv :
                    InBatch(o, [view |-> pv[i],
                                x |-> (ViewX(pv[i]) + 300) * XUnit,
                                alpha |-> FloatMulAlpha(ViewAlpha(pv[i]), NearestFloat(7, 10))])
               /\ \A i \in DOMAIN cv :
                    InBatch(o, [view |-> cv[i],
                                x |-> (ViewX(cv[i]) - 700) * XUnit,
                                alpha |-> FloatMulAlpha(ViewAlpha(cv[i]), NearestFloat(3, 10))])

\* The frame at a = 0.3 of a switch from index 2 to index 0 at width 1000,
\* with views on both workspaces.
C3_Witness ==
  \E o \in OutputIds :
    /\ Rendered(o)
    /\ out[o].mode.width = 1000
    /\ out[o].ws_alpha = NearestFloat(3, 10)
    /\ out[o].prev_workspace # NULL
    /\ WsIndex(out[o].workspace) = 0
    /\ WsIndex(out[o].prev_workspace) = 2
    /\ visible_views(out[o].workspace) # <<>>
    /\ visible_views(out[o].prev_workspace) # <<>>
    /\ Len(out[o].views) >= 2

\* C4: a render() that returns with ws_alpha = 1 (the one in which ws_alpha
\* reaches 1 and every later one until the next switch) leaves a batch of
\* only the current workspace's visible views, each at its own opacity and
\* its own x; no view of another workspace is in it.
C4_OnlyCurrentWorkspaceAtOne ==
  \A o \in OutputIds :
    (Rendered(o) /\ out[o].ws_alpha >= One) =>
      LET cv == visible_views(out[o].workspace)
      IN /\ \A i \in DOMAIN out[o].views :
              LET e == out[o].views[i]
              IN /\ \E j \in DOMAIN cv : cv[j] = e.view
                 /\ e.x = ViewX(e.view) * XUnit
                 /\ e.alpha = ViewAlpha(e.view)
         /\ out[o].fullscreen_view = NULL =>
              (Len(out[o].views) = Len(cv)
               /\ \A i \in DOMAIN cv : out[o].views[i].view = cv[i])

\* The render() in which ws_alpha reached 1 has batched the two views of
\* the workspace switched to and nothing else.
C4_Witness ==
  \E o \in OutputIds :
    /\ Rendered(o)
    /\ event.before < One /\ event.before > 0
    /\ out[o].ws_alpha = One
    /\ Len(out[o].views) = 2
    /\ visible_views(out[o].workspace) = ws_views[out[o].workspace]

\* A transition is in flight: ws_alpha < 1 with a previous workspace set.
InFlight(cur) == cur.ws_alpha < One /\ cur.prev_workspace # NULL

\* C5: a switch request on an Output whose transition is in flight changes
\* neither workspace, prev_workspace nor ws_alpha (nor anything else of the
\* Output: nothing is queued), and no step other than the Output's removal
\* changes the workspace a transition in flight is heading for.
C5_SwitchInFlightRejected ==
  [][\A o \in OutputIds :
       (Live(o) /\ InFlight(out[o])) =>
         /\ (event'.kind = "switch" /\ event'.out = o) =>
              (out'[o] = out[o] /\ ~event'.accepted)
         /\ event'.kind \in {"switch", "frame"} =>
              out'[o].workspace = out[o].workspace]_vars

\* A switch request was rejected during a transition between two different
\* workspaces.
C5_Witness ==
  \E o \in OutputIds :
    /\ Live(o)
    /\ event.kind = "switch" /\ event.out = o /\ ~event.accepted
    /\ InFlight(out[o])
    /\ out[o].prev_workspace # out[o].workspace
    /\ event.target # out[o].workspace
    /\ out[o].ws_alpha > 0

\* C6: render() on an enabled Output whose workspace and prev_workspace are
\* identical and whose workspace has a fullscreen view leaves exactly that
\* view as the render result: the per-view batch is empty.
C6_FullscreenAlone ==
  [][\A o \in OutputIds :
       ( /\ Live(o)
         /\ event'.kind = "frame" /\ event'.out = o
         /\ out[o].enabled
         /\ out[o].prev_workspace = out[o].workspace
         /\ fullscreen[out[o].workspace] # NULL )
       =>
       /\ event'.do_render
       /\ out'[o].views = <<>>
       /\ out'[o].fullscreen_view = fullscreen[out[o].workspace]]_vars

\* A render() took the fullscreen path.
C6_Witness ==
  \E o \in OutputIds :
    /\ Rendered(o)
    /\ out[o].prev_workspace = out[o].workspace
    /\ out[o].fullscreen_view # NULL
    /\ out[o].fullscreen_view = fullscreen[out[o].workspace]
    /\ out[o].views = <<>>

\* C7: render() on a disabled Output changes nothing: ws_alpha, workspace,
\* prev_workspace, the batch and the damage stay, and nothing is handed to
\* the renderer.
C7_DisabledRenderIsNoOp ==
  [][\A o \in OutputIds :
       (Live(o) /\ event'.kind = "frame" /\ event'.out = o /\ ~out[o].enabled)
       =>
       (out' = out /\ outputs' = outputs /\ ~event'.do_render)]_vars

\* A damage-frame event reached a disabled Output in the middle of a switch.
C7_Witness ==
  \E o \in OutputIds :
    /\ Live(o)
    /\ event.kind = "frame" /\ event.out = o /\ ~event.do_render
    /\ ~out[o].enabled
    /\ out[o].ws_alpha = 0
    /\ out[o].prev_workspace # NULL
    /\ out[o].damage

\* The positions of the modes set_mode saw that match the configured width
\* and height, and those that match the refresh rate too.
SizeMatches == {i \in DOMAIN event.modes :
                  /\ event.modes[i].width = event.oc.width
                  /\ event.modes[i].height = event.oc.height}
ExactMatches == {i \in SizeMatches :
                   event.modes[i].refresh = event.oc.refresh_rate * 1000}
SetModeScanned ==
  event.kind = "new_output" /\ event.called /\ event.modes # <<>>

\* C8: on a non-empty list of modes, set_mode selects a mode matching width,
\* height and refresh when there is one; otherwise, when some mode matches
\* width and height, the last such mode of the list, without an error.
C8_ExactElseLastSizeMatch ==
  SetModeScanned =>
    /\ ExactMatches # {} =>
         /\ event.best \in ExactMatches
         /\ out[event.out].mode = event.modes[event.best]
         /\ ~event.error /\ ~event.custom
    /\ (ExactMatches = {} /\ SizeMatches # {}) =>
         /\ event.best \in SizeMatches
         /\ \A i \in SizeMatches : i <= event.best
         /\ out[event.out].mode = event.modes[event.best]
         /\ ~event.error /\ ~event.custom

\* set_mode chose the last of two modes of the configured size, neither of
\* the configured refresh rate.
C8_Witness ==
  /\ SetModeScanned
  /\ ExactMatches = {}
  /\ Cardinality(SizeMatches) = 2
  /\ event.best = 2
  /\ event.modes[1] # event.modes[2]

\* C9: when the sink has modes but none of the configured width and height,
\* set_mode logs the error and changes no mode: the output keeps the mode it
\* had, and the Output is constructed and registered all the same.
C9_NoSizeMatchIsError ==
  (SetModeScanned /\ SizeMatches = {}) =>
    /\ event.error
    /\ event.best = 0 /\ ~event.custom
    /\ out[event.out].mode = event.preferred
    /\ Live(event.out)
    /\ out[event.out].enabled

\* set_mode found no mode of the configured size on a sink whose preferred
\* mode stays.
C9_Witness ==
  /\ SetModeScanned
  /\ SizeMatches = {}
  /\ event.error
  /\ event.preferred # NoMode
  /\ out[event.out].mode = event.preferred
  /\ Live(event.out)

Pos(s, o) == CHOOSE i \in DOMAIN s : s[i] = o

\* C10: a destroy event of an Output's sink or of its damage tracker removes
\* exactly that Output from Desktop::outputs; every other Output stays, in
\* the same order.
C10_DestroyRemovesExactlyThis ==
  [][\A o \in OutputIds :
       (Live(o) /\ event'.kind \in {"destroy", "damage_destroy"} /\ event'.out = o)
       =>
       /\ \A i \in DOMAIN outputs' : outputs'[i] # o
       /\ Len(outputs') = Len(outputs) - 1
       /\ \A p \in OutputIds \ {o} :
            (\E i \in DOMAIN outputs : outputs[i] = p) =>
              /\ \E i \in DOMAIN outputs' : outputs'[i] = p
              /\ out'[p] = out[p]
       /\ \A p, q \in OutputIds \ {o} :
            ( /\ \E i \in DOMAIN outputs : outputs[i] = p
              /\ \E i \in DOMAIN outputs : outputs[i] = q
              /\ Pos(outputs, p) < Pos(outputs, q) )
            => Pos(outputs', p) < Pos(outputs', q)]_vars

\* The damage tracker's destroy event removed an Output and two others stay.
C10_Witness ==
  /\ event.kind = "damage_destroy"
  /\ event.calls = 1
  /\ Len(outputs) = 2
  /\ \A i \in DOMAIN outputs : outputs[i] # event.out

\* An event of one of the five kinds an Output subscribes to, for output o.
Emitted(e, o) == e.kind \in EventKinds /\ e.out = o

\* C11: once an Output has been removed by its sink's destroy event or by
\* its damage tracker's destroy event, either destroy event for it (the other
\* one or the same one again) runs no handler and leaves Desktop::outputs,
\* every Output and every subscription as they were.
C11_TeardownIdempotent ==
  [][\A o \in OutputIds :
       ( /\ removed_by[o] # "none"
         /\ Emitted(event', o)
         /\ event'.kind \in {"destroy", "damage_destroy"} )
       =>
       ( /\ event'.calls = 0
         /\ outputs' = outputs
         /\ out' = out
         /\ subs' = subs
         /\ removed_by' = removed_by )]_vars

\* The sink's destroy event removed an Output, two others are live, and the
\* damage tracker's destroy event for the removed one has then been handled.
C11_Witness ==
  /\ event.kind = "damage_destroy"
  /\ removed_by[event.out] = "destroy"
  /\ event.calls = 0
  /\ Len(outputs) = 2

\* C12: the destroy event that removes an Output deregisters each of its five
\* subscriptions once and leaves none, and an event of any of the five kinds
\* emitted while the Output is gone runs no callback and changes nothing.
C12_DestroyedSubscriberIsDeaf ==
  /\ [](\A o \in OutputIds : ~Live(o) => subs[o] = NoSubs)
  /\ [][\A o \in OutputIds :
          /\ ( /\ Live(o)
               /\ Emitted(event', o)
               /\ event'.kind \in {"destroy", "damage_destroy"} )
             =>
             \A k \in EventKinds :
               event'.deregistered[k] = 1 /\ subs'[o][k] = 0
          /\ (~Live(o) /\ Emitted(event', o))
             =>
             ( /\ event'.calls = 0
               /\ out' = out
               /\ outputs' = outputs
               /\ subs' = subs )]_vars

\* The damage tracker's destroy event removed the Output and a transform
\* event of its sink has then been emitted.
C12_Witness ==
  /\ event.kind = "transform"
  /\ removed_by[event.out] = "damage_destroy"
  /\ event.calls = 0
  /\ ~Live(event.out)

Announced(c, k) == c.last.kind = "global" /\ c.last.interface = k

\* C14: in the keyboard client a seat announcement made while a seat is
\* bound binds nothing and leaves the seat as it was, so the bound seat is
\* always the one of the first seat announcement.
C14_SeatIsFirstAnnounced ==
  /\ [](client.program = "kbd" => client.bound["seat"] = client.first["seat"])
  /\ [][( /\ client.program = "kbd"
          /\ client.bound["seat"] # NoProxy
          /\ Announced(client', "seat") )
        =>
        ( /\ client'.bound["seat"] = client.bound["seat"]
          /\ ~client'.last.bind
          /\ client'.binds["seat"] = 1 )]_vars

\* A second seat has been announced to the keyboard client, under another
\* name and at another version than the first.
C14_Witness ==
  /\ client.program = "kbd"
  /\ Announced(client, "seat")
  /\ client.seen["seat"] = 2
  /\ client.bound["seat"] # NoProxy
  /\ client.last.name # client.bound["seat"].name
  /\ client.last.version # client.bound["seat"].version

\* C15: no program binds a global of a kind it has already bound: at most
\* one bind is issued per kind.
C15_AtMostOneBindPerKind ==
  client.program # "none" => \A k \in Kinds : client.binds[k] <= 1

Min(a, b) == IF a < b THEN a ELSE b

\* C16: a bind requests the minimum of the version the program's protocol
\* library supports and the version the announcement advertises, and never
\* more than the library supports.
C16_RequestedIsMinimum ==
  (client.program # "none" /\ client.last.kind = "global" /\ client.last.bind)
  =>
  ( /\ client.last.requested = Min(client.local, client.last.version)
    /\ client.last.requested <= client.local )

\* C17: a program whose required globals are not all bound when the registry
\* roundtrip is done fails its startup: it creates no surface and does not
\* enter its dispatch loop.
C17_MissingGlobalFailsStartup ==
  (client.program # "none" /\ client.missing)
  =>
  (client.phase = "failed" /\ client.surfaces = 0)

\* C18: the notification list changes only in a step of the main loop; the
\* bus handlers Notify and CloseNotification and the sleeper thread leave it
\* as it is and at most append one deferred call for the main loop to run.
C18_ListChangesOnlyInMainLoop ==
  [][server.running =>
       /\ server'.last.actor # "main" =>
            /\ server'.notifications = server.notifications
            /\ IF server'.last.scheduled
               THEN /\ Len(server'.idle) = Len(server.idle) + 1
                    /\ SubSeq(server'.idle, 1, Len(server.idle)) = server.idle
               ELSE server'.idle = server.idle
       /\ server'.notifications # server.notifications =>
            /\ server'.last.actor = "main"
            /\ server'.last.kind \in {"idle", "click"}]_vars

\* The main loop has run the expiry deferred by a sleeper thread and the
\* notification is gone from the list.
C18_Witness ==
  /\ server.running
  /\ server.last.kind = "idle"
  /\ server.last.op = "expire"
  /\ server.created = 1
  /\ server.notifications = <<>>

\* C20: a Notify call stopped by an exception in its hints or its image lets
\* nothing out of the handler: it returns an error and the caller's id and
\* defers nothing.
C20_FailedNotifyReturnsError ==
  ( /\ server.running
    /\ server.last.kind = "Notify"
    /\ server.last.image \in {"std", "glib"} )
  =>
  ( /\ ~server.last.propagated
    /\ server.last.error
    /\ server.last.returned = server.last.id_in
    /\ ~server.last.scheduled )

\* C21: after every render() on an enabled Output the whole output area is
\* marked damaged if and only if ws_alpha is still below 1: a frame of a
\* transition that is animating forces a further frame, and the frame that
\* completes it, like every frame after it, forces none.
C21_DamagedIffAnimating ==
  \A o \in OutputIds :
    Rendered(o) => (out[o].damage <=> out[o].ws_alpha < One)

\* A frame in the middle of a transition between two workspaces has left the
\* whole output damaged.
C21_Witness ==
  \E o \in OutputIds :
    /\ Rendered(o)
    /\ event.before > 0
    /\ out[o].ws_alpha < One
    /\ out[o].prev_workspace # NULL
    /\ out[o].prev_workspace # out[o].workspace
    /\ out[o].views # <<>>
    /\ out[o].damage

\* The places view v has in the workspaces' view lists.
Places(v) ==
  {pl \in Workspaces \X (1..NViews) :
     pl[2] \in DOMAIN ws_views[pl[1]] /\ ws_views[pl[1]][pl[2]] = v}

\* C22: whatever surfaces were created, views destroyed and workspaces
\* changed, every View of Desktop's registry is in the view list of exactly
\* one Workspace (once), and a View that is not in the registry, a destroyed
\* one above all, is in no Workspace's view list and fullscreen nowhere.
C22_RegistryViewInOneWorkspace ==
  /\ \A i \in DOMAIN views : Cardinality(Places(views[i])) = 1
  /\ \A i, j \in DOMAIN views : views[i] = views[j] => i = j
  /\ \A v \in ViewIds :
       ~InSeq(views, v) =>
         /\ Places(v) = {}
         /\ \A w \in Workspaces : fullscreen[w] # v
  /\ event.kind = "view_destroy" =>
       (~InSeq(views, event.view) /\ Places(event.view) = {})

\* After a workspace switch on the output a view has been destroyed, and
\* each of two workspaces still holds a view.
C22_Witness ==
  /\ event.kind = "view_destroy"
  /\ event.existed
  /\ Live(1)
  /\ out[1].prev_workspace # NULL
  /\ out[1].prev_workspace # out[1].workspace
  /\ Len(views) = 2
  /\ ws_views[1] # <<>>
  /\ ws_views[2] # <<>>

\* The positions in the registry of the views that are not hidden and whose
\* bounds contain the point of the last hit-test.
HitCandidates ==
  {i \in DOMAIN views :
     ~Hidden(views[i]) /\ Contains(views[i], event.lx, event.ly)}

\* C23: surface_at(x, y) returns the topmost View, the last inserted of the
\* views not hidden by a fullscreen view, whose bounds contain the point, with
\* the point in that view's coordinates, and none when no View's bounds
\* contain the point.
C23_SurfaceAtIsTopmost ==
  event.kind = "surface_at" =>
    /\ HitCandidates # {} =>
         /\ \E i \in HitCandidates :
              /\ \A j \in HitCandidates : j <= i
              /\ event.hit.view = views[i]
         /\ event.hit.sx = event.lx - ViewX(event.hit.view)
         /\ event.hit.sy = event.ly - ViewY(event.hit.view)
    /\ HitCandidates = {} => event.hit.view = NULL
    /\ (\A i \in DOMAIN views : ~Contains(views[i], event.lx, event.ly))
         => event.hit.view = NULL

\* A hit-test found a view under the point although a view inserted later,
\* hidden by a fullscreen view, contains the point too.
C23_Witness ==
  /\ event.kind = "surface_at"
  /\ event.hit.view # NULL
  /\ \E i, j \in DOMAIN views :
       /\ views[i] = event.hit.view
       /\ i < j
       /\ Hidden(views[j])
       /\ Contains(views[j], event.lx, event.ly)

\* The blend value a is k tenths, to within 2^-22.
NearTenths(a, k) ==
  LET d == 5 * a - k * 2^27
  IN d <= 5 * 2^6 /\ 0 - d <= 5 * 2^6

\* render() finds a switch to detect: line 34 resets ws_alpha.
Restarts(cur) ==
  /\ cur.prev_workspace # cur.workspace
  /\ cur.prev_workspace # NULL
  /\ cur.ws_alpha >= One

\* C24: from ws_alpha = 0 each render() on the enabled Output takes ws_alpha
\* from k tenths to k + 1 tenths (as floats: within 2^-22), staying below 1
\* for the first nine and giving exactly 1 at the tenth, so ten successive
\* render() calls complete a transition; and when damage-frame events are
\* delivered fairly, every transition of an enabled Output completes unless
\* the Output is removed first.
C24_TenRendersComplete ==
  /\ [](\A o \in OutputIds :
          Live(o) => \E k \in 0..10 : NearTenths(out[o].ws_alpha, k))
  /\ [][\A o \in OutputIds :
          ( /\ Live(o) /\ out[o].enabled
            /\ event'.kind = "frame" /\ event'.out = o )
          =>
          LET a0 == IF Restarts(out[o]) THEN 0 ELSE out[o].ws_alpha
          IN \A k \in 0..9 :
               NearTenths(a0, k) =>
                 /\ NearTenths(out'[o].ws_alpha, k + 1)
                 /\ k < 9 => out'[o].ws_alpha < One
                 /\ k = 9 => out'[o].ws_alpha = One]_vars
  /\ Animating(1) ~> (~Live(1) \/ out[1].ws_alpha = One)

\* The tenth render() of a transition between two workspaces: it found
\* ws_alpha at nine tenths and left it at 1.
C24_Witness ==
  \E o \in OutputIds :
    /\ Rendered(o)
    /\ NearTenths(event.before, 9)
    /\ out[o].ws_alpha = One
    /\ out[o].prev_workspace = out[o].workspace
    /\ out[o].workspace # 1

\* A transition of the Output has completed: render() has brought ws_alpha
\* to 1 and left prev_workspace equal to workspace.
Completed(cur) ==
  /\ cur.ws_alpha = One
  /\ cur.prev_workspace = cur.workspace
  /\ cur.workspace # NULL

\* C25: once a transition has completed, a switch of the Output to a
\* different workspace is accepted, and the next render() on the enabled
\* Output is the first frame of a new transition: ws_alpha is 0.1, the old
\* workspace is the previous workspace, and the batch holds the old
\* workspace's views at nine tenths of their opacity followed by the new
\* workspace's views at one tenth.  The same first frame comes out when only
\* workspace is changed and render() has the reset of ws_alpha to do.
C25_SwitchAfterCompletionStartsTransition ==
  /\ [](\A o \in OutputIds, target \in Workspaces :
          (Live(o) /\ out[o].enabled /\ Completed(out[o])
             /\ target # out[o].workspace)
          =>
          LET next == render([out[o] EXCEPT !.workspace = target]).output
          IN /\ next.ws_alpha = NearestFloat(1, 10)
             /\ next.prev_workspace = out[o].workspace
             /\ next.workspace = target)
  /\ [][\A o \in OutputIds :
       /\ ( /\ Live(o) /\ Completed(out[o])
            /\ event'.kind = "switch" /\ event'.out = o
            /\ event'.target # out[o].workspace )
          =>
          ( /\ event'.accepted
            /\ out'[o].workspace = event'.target
            /\ out'[o].prev_workspace = out[o].workspace )
       /\ ( /\ Live(o) /\ out[o].enabled
            /\ event.kind = "switch" /\ event.out = o /\ event.accepted
            /\ out[o].workspace # out[o].prev_workspace
            /\ event'.kind = "frame" /\ event'.out = o )
          =>
          LET a == NearestFloat(1, 10)
              pv == visible_views(out[o].prev_workspace)
              cv == visible_views(out[o].workspace)
          IN /\ out'[o].ws_alpha = a
             /\ out'[o].prev_workspace = out[o].prev_workspace
             /\ out'[o].workspace = out[o].workspace
             /\ Len(out'[o].views) = Len(pv) + Len(cv)
             /\ \A i \in DOMAIN pv :
                  /\ out'[o].views[i].view = pv[i]
                  /\ out'[o].views[i].alpha =
                       FloatMulAlpha(ViewAlpha(pv[i]), FloatSub(One, a))
             /\ \A i \in DOMAIN cv :
                  /\ out'[o].views[Len(pv) + i].view = cv[i]
                  /\ out'[o].views[Len(pv) + i].alpha =
                       FloatMulAlpha(ViewAlpha(cv[i]), a)]_vars

\* The first frame of a second transition: the Output was created on
\* workspace 1, has completed a transition to another workspace and has now
\* rendered at 0.1 on its way from there to a third.
C25_Witness ==
  \E o \in OutputIds :
    /\ Rendered(o)
    /\ event.before = 0
    /\ out[o].ws_alpha = NearestFloat(1, 10)
    /\ out[o].prev_workspace \notin {NULL, 1}
    /\ out[o].workspace # out[o].prev_workspace
    /\ out[o].views # <<>>

\* C26: when the sink has no modes at all, set_mode requests a custom mode
\* of the configured width, height and refresh (in mHz) and logs no error;
\* no mode is picked from a list.
C26_NoModesRequestsCustom ==
  (event.kind = "new_output" /\ event.called /\ event.modes = <<>>) =>
    /\ event.custom
    /\ ~event.error
    /\ event.best = 0
    /\ out[event.out].mode =
         Mode(event.oc.width, event.oc.height, event.oc.refresh_rate * 1000)

\* set_mode ran on a sink without modes (whose preferred mode is none) and
\* the output has the configured 1920x800 at 75 Hz.
C26_Witness ==
  /\ event.kind = "new_output"
  /\ event.called
  /\ event.modes = <<>>
  /\ event.preferred = NoMode
  /\ event.custom
  /\ Live(event.out)
  /\ out[event.out].mode = Mode(1920, 800, 75000)

\* The views of the previous workspace that a transition frame left at
\* blend value a draws: none once the transition is over.
DrawnPrevious(cur) ==
  IF cur.ws_alpha < One /\ cur.prev_workspace # NULL
  THEN visible_views(cur.prev_workspace) ELSE <<>>

\* C27: the batch of every transition frame holds the entries of the
\* previous workspace's visible views, in that workspace's order, and after
\* all of them the entries of the current workspace's visible views, in that
\* workspace's order.
C27_PreviousBeforeCurrent ==
  \A o \in OutputIds :
    (Rendered(o) /\ out[o].fullscreen_view = NULL) =>
      LET pv == DrawnPrevious(out[o])
          cv == visible_views(out[o].workspace)
          batch == out[o].views
      IN /\ Len(batch) = Len(pv) + Len(cv)
         /\ \A i \in DOMAIN pv : batch[i].view = pv[i]
         /\ \A i \in DOMAIN cv : batch[Len(pv) + i].view = cv[i]

\* A frame of a transition from a workspace with two visible views to a
\* workspace with one: three entries, the two of the previous workspace first.
C27_Witness ==
  \E o \in OutputIds :
    /\ Rendered(o)
    /\ out[o].fullscreen_view = NULL
    /\ out[o].ws_alpha < One
    /\ out[o].prev_workspace # NULL
    /\ out[o].prev_workspace # out[o].workspace
    /\ Len(visible_views(out[o].prev_workspace)) = 2
    /\ Len(visible_views(out[o].workspace)) = 1
    /\ Len(out[o].views) = 3
    /\ out[o].views[3].view = visible_views(out[o].workspace)[1]

\* The factor a batch entry's opacity carries over the view's own, and the
\* horizontal offset of its position from the view's own (in XUnits).
OpacityFactor(e) == e.alpha * (One \div ViewAlpha(e.view))
OffsetX(e) == e.x - ViewX(e.view) * XUnit

\* A frame has rendered both workspaces of a transition of output o.
BothRendered(o) ==
  /\ Rendered(o)
  /\ out[o].fullscreen_view = NULL
  /\ 0 < out[o].ws_alpha /\ out[o].ws_alpha < One
  /\ out[o].prev_workspace # NULL
  /\ out[o].prev_workspace # out[o].workspace

\* C28 as stated: in every transition frame that renders both workspaces the
\* two opacity factors sum to 1 and the two horizontal offsets differ by
\* exactly one output width, the current workspace's views lying to the left
\* of the previous one's when its index is the smaller and to the right
\* otherwise.
C28_FactorsSumToOneOffsetsOneWidth ==
  \A o \in OutputIds :
    BothRendered(o) =>
      LET n == Len(visible_views(out[o].prev_workspace))
          batch == out[o].views
          W == out[o].mode.width * XUnit
      IN \A i \in 1..n, j \in (n + 1)..Len(batch) :
           /\ OpacityFactor(batch[i]) + OpacityFactor(batch[j]) = One
           /\ IF WsIndex(out[o].workspace) < WsIndex(out[o].prev_workspace)
              THEN OffsetX(batch[i]) - OffsetX(batch[j]) = W
              ELSE OffsetX(batch[j]) - OffsetX(batch[i]) = W

Abs(n) == IF n < 0 THEN 0 - n ELSE n

\* C28 amended: in every transition frame that renders both workspaces the
\* two opacity factors are the float ws_alpha and the float nearest to
\* 1 - ws_alpha, so they sum to 1 to within 2^-25; and the two horizontal
\* offsets differ by one output width W to within W * 2^-23, the current
\* workspace's views lying to the left of the previous one's when its index
\* is the smaller and to the right otherwise.
C28_ComplementaryWithinRounding ==
  \A o \in OutputIds :
    BothRendered(o) =>
      LET n == Len(visible_views(out[o].prev_workspace))
          batch == out[o].views
          a == out[o].ws_alpha
          W == out[o].mode.width
      IN \A i \in 1..n, j \in (n + 1)..Len(batch) :
           LET gap == IF WsIndex(out[o].workspace) < WsIndex(out[o].prev_workspace)
                      THEN OffsetX(batch[i]) - OffsetX(batch[j])
                      ELSE OffsetX(batch[j]) - OffsetX(batch[i])
           IN /\ OpacityFactor(batch[j]) = a
              /\ OpacityFactor(batch[i]) = FloatSub(One, a)
              /\ Abs(OpacityFactor(batch[i]) + OpacityFactor(batch[j]) - One)
                   <= One \div 2^25
              /\ Abs(gap - W * XUnit) <= W \div (2^23 \div XUnit)

\* A frame of a transition towards a workspace of smaller index has drawn
\* views of both workspaces with opacity factors that do not sum to 1
\* exactly.
C28_Witness ==
  \E o \in OutputIds :
    /\ BothRendered(o)
    /\ WsIndex(out[o].workspace) < WsIndex(out[o].prev_workspace)
    /\ visible_views(out[o].prev_workspace) # <<>>
    /\ visible_views(out[o].workspace) # <<>>
    /\ Len(out[o].views) >= 2
    /\ OpacityFactor(out[o].views[1])
         + OpacityFactor(out[o].views[Len(out[o].views)]) # One

\* C29: whatever workspace changes and renders came before, each View
\* appears at most once in the batch render() produces.
C29_EachViewOnceInBatch ==
  \A o \in OutputIds :
    Rendered(o) =>
      \A i, j \in DOMAIN out[o].views :
        out[o].views[i].view = out[o].views[j].view => i = j

\* The notifications listed under id.
WithId(srv, id) == SelectSeq(srv.notifications, LAMBDA n : n.id = id)

\* C30: whatever Notify and CloseNotification calls were made and deferred
\* calls run, the notification list holds at most one notification per id;
\* the deferred call of a Notify whose id is displayed takes that
\* notification out and puts the new one at the end of the list.
C30_OneNotificationPerId ==
  /\ [](server.running =>
          \A i, j \in DOMAIN server.notifications :
            server.notifications[i].id = server.notifications[j].id => i = j)
  /\ [][( /\ server.running
          /\ server'.last.kind = "idle"
          /\ server'.last.op = "notify" )
        =>
        LET call == Head(server.idle)
            new == server'.notifications[Len(server'.notifications)]
        IN /\ server'.last.replaced = Len(WithId(server, call.id))
           /\ Len(server'.notifications) =
                Len(server.notifications) - Len(WithId(server, call.id)) + 1
           /\ new.id = call.id
           /\ new.uid \notin Listed(server)
           /\ Len(WithId(server', call.id)) = 1
           /\ \A i \in DOMAIN server.notifications :
                server.notifications[i].id = call.id =>
                  server.notifications[i].uid \notin Listed(server')]_vars

\* The deferred call of a Notify has replaced the displayed notification of
\* its id: the list holds the second Notification created and nothing else.
C30_Witness ==
  /\ server.running
  /\ server.last.kind = "idle"
  /\ server.last.op = "notify"
  /\ server.last.replaced = 1
  /\ Len(server.notifications) = 1
  /\ server.notifications[1].uid = 2

\* The ids displayed, and the ids whose insertion waits in the main loop.
DisplayedIds(srv) == {srv.notifications[i].id : i \in DOMAIN srv.notifications}
PendingIds(srv) == {srv.idle[i].id : i \in {j \in DOMAIN srv.idle : srv.idle[j].op = "notify"}}

\* C31: a Notify call with replaces-id 0 returns an id that no displayed
\* notification and no notification pending insertion has, whatever non-zero
\* ids earlier callers supplied.
C31_FreshIdIsUnused ==
  [][( /\ server.running
       /\ server'.last.kind = "Notify"
       /\ server'.last.id_in = 0 )
     => server'.last.returned \notin DisplayedIds(server) \cup PendingIds(server)]_vars

\* C32: whatever the interleaving of the sleeper threads and the main loop,
\* the main loop runs no deferred expiry of a notification that has been
\* destroyed: the notification of every expiry that runs is in the list.
C32_NoExpiryAfterDestroy ==
  [][( /\ server.running
       /\ server'.last.kind = "idle"
       /\ server'.last.op = "expire" )
     => Head(server.idle).uid \in Listed(server)]_vars

\* The notifications that a step takes out of the list.
Removed(before, after) ==
  {before.notifications[i] : i \in {j \in DOMAIN before.notifications :
                                      before.notifications[j].uid \notin Listed(after)}}

\* How many of the signals carry this id.
ClosedCount(srv, id) == Len(SelectSeq(srv.signals, LAMBDA g : g.id = id))

\* C33: every step that takes a notification out of the list (expiry, click,
\* CloseNotification, replacement by a Notify of its id) emits
\* NotificationClosed for its id exactly once, steps that take none out emit
\* none, and the deferred call of a CloseNotification whose id is not
\* displayed emits nothing and changes nothing.
C33_ClosedOncePerRemoval ==
  [][server.running =>
       /\ \A i \in DOMAIN server'.signals :
            server'.signals[i].signal = "NotificationClosed"
       /\ \A id \in 0..(MaxNotifyId + 1) :
            ClosedCount(server', id) =
              Cardinality({n \in Removed(server, server') : n.id = id})
       /\ ( /\ server'.last.kind = "idle"
            /\ server'.last.op = "close"
            /\ Head(server.idle).id \notin DisplayedIds(server) )
          => /\ server'.signals = <<>>
             /\ server'.notifications = server.notifications
             /\ server'.sleepers = server.sleepers
             /\ server'.id = server.id
             /\ server'.created = server.created
             /\ server'.idle = Tail(server.idle)]_vars

\* The deferred call of a Notify has replaced the displayed notification of
\* its id, and NotificationClosed went out for that id.
C33_Witness ==
  /\ server.running
  /\ server.last.kind = "idle"
  /\ server.last.op = "notify"
  /\ server.last.replaced = 1
  /\ Len(server.signals) = 1
  /\ server.signals[1].id = server.notifications[Len(server.notifications)].id

\* The timeout that goes with an urgency hint: Low 5, Normal 10 (also with
\* no hint), Critical 0, and none for any other byte.
UrgencyTimeouts(u) ==
  IF ~u.present \/ u.value = 1 THEN {10}
  ELSE IF u.value = 0 THEN {5}
  ELSE IF u.value = 2 THEN {0}
  ELSE {}

\* C34: for every Notify call with a negative expire timeout and every
\* urgency byte a client can send, the timeout of the notification is
\* non-negative and the one of its urgency (Low 5, Normal 10, Critical 0), and
\* no expiry removes a notification whose timeout is 0.
C34_NegativeTimeoutSetByUrgency ==
  [][server.running =>
       /\ ( /\ server'.last.kind = "Notify"
            /\ server'.last.scheduled
            /\ server'.last.expire_in < 0 )
          => LET call == server'.idle[Len(server'.idle)]
             IN /\ call.expire >= 0
                /\ server'.last.urgency.value \in 0..2 =>
                     call.expire \in UrgencyTimeouts(server'.last.urgency)
       /\ ( /\ server'.last.kind = "idle"
            /\ server'.last.op = "expire" )
          => \A n \in Removed(server, server') : n.expire # 0]_vars

====
